---------------------------- MODULE Spec2Model ----------------------------
(***************************************************************************)
(* Proof-verification pipeline of DE-CODED-3:                              *)
(*   lib/verification_pipeline.py  ingest_complaint, ingest_proof,         *)
(*                                 verify_proof                            *)
(*   backend/scoring_engine.py     compute_composite_score, make_decision  *)
(*   lib/image_processor.py        is_duplicate, chunk_image               *)
(*   database/pinecone.py          upsert_vector, fetch_vector,            *)
(*                                 query_vectors                           *)
(*                                                                         *)
(* Units.  Python floats are modelled as scaled integers:                  *)
(*   probabilities, similarities, weights : thousandths  (0.85 -> 850)     *)
(*   component and composite scores       : millionths   (0.70 -> 700000)  *)
(*   distances                            : millimetres  (50 m -> 50000)   *)
(*   latitudes, longitudes                : 1e-4 degrees                   *)
(***************************************************************************)
EXTENDS Integers, Sequences, FiniteSets, TLC

VARIABLES
    complaints_before,  \* store collection: vector id -> ComplaintRecord
    proofs,             \* store collection: proof_id -> ProofRecord
    chunks,             \* store collection: chunk id -> BlobChunk
    phash_index,        \* store collection: phash -> PhashIndexEntry
    audits,             \* store collection: audit id -> AuditRecord
    result,             \* what the last call of the pipeline returned or raised
    calc,               \* last call of a pure function (ScoreSpec, ChunkSpec only)
    inflight            \* ingest_proof calls in progress: call id -> position and
                        \* locals (RaceSpec only)

vars == <<complaints_before, proofs, chunks, phash_index, audits, result, calc, inflight>>

store_vars == <<complaints_before, proofs, chunks, phash_index, audits, result>>

----------------------------------------------------------------------------
(* Generic helpers *)

Abs(x) == IF x < 0 THEN 0 - x ELSE x

Min(a, b) == IF a <= b THEN a ELSE b

Max(a, b) == IF a >= b THEN a ELSE b

\* dict.get(key, default)
Get(d, key, default) == IF key \in DOMAIN d THEN d[key] ELSE default

\* d with the keys in ks removed
Without(d, ks) == [k \in DOMAIN d \ ks |-> d[k]]

\* store.upsert: last writer wins on the key
Upsert(coll, id, rec) == (id :> rec) @@ coll

----------------------------------------------------------------------------
(* backend/scoring_engine.py *)

\* A slip that halves the penalty of a recycled photo.
weights_mild ==
    [visual_similarity    |-> 350,
     visual_diff          |-> 200,
     vlm_quality          |-> 200,
     spatial_proximity    |-> 100,
     authenticity         |-> 100,
     recycled_penalty     |-> 0 - 250,
     manipulation_penalty |-> 0 - 300]

weights ==
    [visual_similarity    |-> 350,
     visual_diff          |-> 200,
     vlm_quality          |-> 200,
     spatial_proximity    |-> 100,
     authenticity         |-> 100,
     recycled_penalty     |-> 0 - 500,
     manipulation_penalty |-> 0 - 300]

thresholds == [verified |-> 700000, questionable |-> 450000]

\* A slip that maps a value outside the range to 0 on either side.
normalize_reject(value, min_val, max_val) ==
    IF max_val = min_val
    THEN 500
    ELSE IF value < min_val \/ value > max_val THEN 0
    ELSE ((value - min_val) * 1000) \div (max_val - min_val)

\* normalize(value, min_val, max_val), thousandths in and out
normalize(value, min_val, max_val) ==
    IF max_val = min_val
    THEN 500
    ELSE Max(0, Min(1000, ((value - min_val) * 1000) \div (max_val - min_val)))

\* A slip that forgets to clamp the sum.
compute_composite_score_unclamped(signals) ==
    LET embedding_sim  == Get(signals, "embedding_sim", 0)
        ssim           == Get(signals, "ssim", 0)
        vlm_score      == Get(signals, "vlm_work_completion_score", 1) * 100
        distance_m     == Get(signals, "distance_m", 1000 * 1000)
        manip_prob     == Get(signals, "manipulation_probability", 0)
        recycled_flag  == Get(signals, "recycled_flag", FALSE)
        visual_score   == normalize(embedding_sim, 0, 1000) * weights.visual_similarity
        diff_score     == normalize(1000 - ssim, 0, 1000) * weights.visual_diff
        quality_score  == vlm_score * weights.vlm_quality
        spatial_score  == IF distance_m <= 50000
                          THEN weights.spatial_proximity * 1000 ELSE 0
        authenticity_score   == (1000 - manip_prob) * weights.authenticity
        recycled_penalty     == IF recycled_flag
                                THEN weights.recycled_penalty * 1000 ELSE 0
        manipulation_penalty == IF manip_prob >= 850
                                THEN weights.manipulation_penalty * 1000 ELSE 0
        total == visual_score + diff_score + quality_score + spatial_score
                 + authenticity_score + recycled_penalty + manipulation_penalty
    IN  [composite_score |-> total,
         components |->
            [visual_similarity_score |-> visual_score,
             visual_diff_score       |-> diff_score,
             vlm_quality_score       |-> quality_score,
             spatial_proximity_score |-> spatial_score,
             authenticity_score      |-> authenticity_score,
             recycled_penalty        |-> recycled_penalty,
             manipulation_penalty    |-> manipulation_penalty]]

compute_composite_score(signals) ==
    LET embedding_sim  == Get(signals, "embedding_sim", 0)
        ssim           == Get(signals, "ssim", 0)
        \* vlm_score = work_completion_score / 10.0, in thousandths
        vlm_score      == Get(signals, "vlm_work_completion_score", 1) * 100
        distance_m     == Get(signals, "distance_m", 1000 * 1000)
        manip_prob     == Get(signals, "manipulation_probability", 0)
        recycled_flag  == Get(signals, "recycled_flag", FALSE)
        visual_score   == normalize(embedding_sim, 0, 1000) * weights.visual_similarity
        diff_score     == normalize(1000 - ssim, 0, 1000) * weights.visual_diff
        quality_score  == vlm_score * weights.vlm_quality
        spatial_score  == IF distance_m <= 50000
                          THEN weights.spatial_proximity * 1000 ELSE 0
        authenticity_score   == (1000 - manip_prob) * weights.authenticity
        recycled_penalty     == IF recycled_flag
                                THEN weights.recycled_penalty * 1000 ELSE 0
        manipulation_penalty == IF manip_prob >= 850
                                THEN weights.manipulation_penalty * 1000 ELSE 0
        total == visual_score + diff_score + quality_score + spatial_score
                 + authenticity_score + recycled_penalty + manipulation_penalty
    IN  [composite_score |-> Max(0, Min(1000000, total)),
         components |->
            [visual_similarity_score |-> visual_score,
             visual_diff_score       |-> diff_score,
             vlm_quality_score       |-> quality_score,
             spatial_proximity_score |-> spatial_score,
             authenticity_score      |-> authenticity_score,
             recycled_penalty        |-> recycled_penalty,
             manipulation_penalty    |-> manipulation_penalty]]

\* A slip that lets a high score win before the location check is made.
make_decision_score_first(composite_score, signals) ==
    LET recycled_flag == Get(signals, "recycled_flag", FALSE)
        manip_prob    == Get(signals, "manipulation_probability", 0)
        distance_m    == Get(signals, "distance_m", 0)
    IN  IF recycled_flag THEN "REJECTED"
        ELSE IF manip_prob >= 850 THEN "REJECTED"
        ELSE IF composite_score >= thresholds.verified THEN "VERIFIED"
        ELSE IF distance_m > 50000 THEN "REJECTED"
        ELSE IF composite_score >= thresholds.questionable THEN "QUESTIONABLE"
        ELSE "REJECTED"

\* A slip that makes the two score thresholds strict.
make_decision_strict(composite_score, signals) ==
    LET recycled_flag == Get(signals, "recycled_flag", FALSE)
        manip_prob    == Get(signals, "manipulation_probability", 0)
        distance_m    == Get(signals, "distance_m", 0)
    IN  IF recycled_flag THEN "REJECTED"
        ELSE IF manip_prob >= 850 THEN "REJECTED"
        ELSE IF distance_m > 50000 THEN "REJECTED"
        ELSE IF composite_score > thresholds.verified THEN "VERIFIED"
        ELSE IF composite_score > thresholds.questionable THEN "QUESTIONABLE"
        ELSE "REJECTED"

make_decision(composite_score, signals) ==
    LET recycled_flag == Get(signals, "recycled_flag", FALSE)
        manip_prob    == Get(signals, "manipulation_probability", 0)
        distance_m    == Get(signals, "distance_m", 0)
    IN  IF recycled_flag THEN "REJECTED"
        ELSE IF manip_prob >= 850 THEN "REJECTED"
        ELSE IF distance_m > 50000 THEN "REJECTED"
        ELSE IF composite_score >= thresholds.verified THEN "VERIFIED"
        ELSE IF composite_score >= thresholds.questionable THEN "QUESTIONABLE"
        ELSE "REJECTED"

\* R * radians(1e-4 degree) = 6371000 * pi / 180 * 1e-4 m = 11.119 m, in mm
MmPerLatStep == 11119

\* haversine_distance for two stamps on one meridian (lon1 = lon2, as all
\* stamps of this model are): a = sin^2(dphi/2), c = |dphi|, distance = R*|dphi|
haversine_distance(lat1, lon1, lat2, lon2) == MmPerLatStep * Abs(lat2 - lat1)

----------------------------------------------------------------------------
(* Images.  An image is named by an integer; its bytes, and what the opaque *)
(* collaborators (perceptual hash, thumbnailer, embedder) return for it, are *)
(* tabulated.  A hex digest is a sequence of 16 hex digits, each 0..15.      *)

\* top_k of the duplicate probe in ingest_proof
TopK == 100

\* the images submitted by the modelled callers:
\*   1 : a photo             2 : image 1 re-encoded (6 hash bits differ)
\*   3 : a different photo
Images == {1, 2, 3}

\* images of the proofs ingested before the modelled calls start
FillerImages == {1000 + i : i \in 1..TopK}

IsFiller(img) == img > 1000

\* digest of filler n: bit b of n fills digits 2b+1 and 2b+2, digits 15-16 are f;
\* any two such digests differ in at least 8 bits
FillerHash(n) ==
    [k \in 1..16 |->
        IF k >= 15 THEN 15
        ELSE IF (n \div (2 ^ ((k - 1) \div 2))) % 2 = 1 THEN 15 ELSE 0]

ZeroHash == [k \in 1..16 |-> 0]

\* str(imagehash.phash(img)): opaque, tabulated
compute_phash(img) ==
    IF IsFiller(img) THEN FillerHash(img - 1000)
    ELSE CASE img = 1 -> ZeroHash
           [] img = 2 -> [ZeroHash EXCEPT ![1] = 15, ![2] = 3]
           [] OTHER   -> [ZeroHash EXCEPT ![3] = 15, ![4] = 15]

image_bytes(img) == IF IsFiller(img) THEN <<img - 1000>> ELSE <<img, 255>>

\* embedding_service.create_thumbnail: opaque, tabulated
create_thumbnail(img) == IF IsFiller(img) THEN <<img - 1000>> ELSE <<img>>

\* embedding_service.get_clip_embedding: opaque, tabulated (a tag, not 512 floats)
get_clip_embedding(img) == img

\* fixed placeholder vector [0.001] + [0.0] * 511 of the keyed-payload collections
metadata_vector == 0

----------------------------------------------------------------------------
(* lib/image_processor.py *)

\* the four bits of a hex digit, as the set of the positions that are set
HexBits == [d \in 0..15 |-> {b \in 0..3 : (d \div (2 ^ b)) % 2 = 1}]

\* imagehash.hex_to_hash: the bit array of a digest, four bits per digit
hex_to_hash(hexstr) == [k \in 1..Len(hexstr) |-> HexBits[hexstr[k]]]

\* ImageHash.__sub__: the number of positions where two bit arrays differ
RECURSIVE count_nonzero(_, _, _)
count_nonzero(h1, h2, k) ==
    IF k = 0 THEN 0
    ELSE Cardinality((h1[k] \ h2[k]) \cup (h2[k] \ h1[k])) + count_nonzero(h1, h2, k - 1)

\* hex_to_hash raises on an empty digest and h1 - h2 on digests of different
\* lengths; the bare except turns either into distance 100
hamming_distance(hash1, hash2) ==
    IF Len(hash1) = 0 \/ Len(hash2) = 0 \/ Len(hash1) # Len(hash2)
    THEN 100
    ELSE count_nonzero(hex_to_hash(hash1), hex_to_hash(hash2), Len(hash1))

\* A slip that compares whole bits: 64 - distance >= floor(threshold * 64).
is_duplicate_whole_bits(hash1, hash2, threshold) ==
    LET distance     == hamming_distance(hash1, hash2)
        max_distance == 64
    IN  max_distance - distance >= (threshold * max_distance) \div 1000

\* similarity = 1 - distance / 64 >= threshold, threshold in thousandths
is_duplicate(hash1, hash2, threshold) ==
    LET distance     == hamming_distance(hash1, hash2)
        max_distance == 64
    IN  (max_distance - distance) * 1000 >= threshold * max_distance

\* default of is_duplicate's threshold parameter (0.90)
DefaultThreshold == 900

\* ImageProcessor.chunk_size = 20 * 1024
chunk_size == 20480

\* base64 alphabet as sextet values 0..63; 64 stands for the padding '='
RECURSIVE b64encode(_)
b64encode(bs) ==
    IF Len(bs) = 0 THEN <<>>
    ELSE IF Len(bs) = 1
    THEN <<bs[1] \div 4, (bs[1] % 4) * 16, 64, 64>>
    ELSE IF Len(bs) = 2
    THEN <<bs[1] \div 4, (bs[1] % 4) * 16 + bs[2] \div 16, (bs[2] % 16) * 4, 64>>
    ELSE <<bs[1] \div 4, (bs[1] % 4) * 16 + bs[2] \div 16,
           (bs[2] % 16) * 4 + bs[3] \div 64, bs[3] % 64>>
         \o b64encode(SubSeq(bs, 4, Len(bs)))

RECURSIVE b64decode(_)
b64decode(cs) ==
    IF Len(cs) < 4 THEN <<>>
    ELSE LET b1 == cs[1] * 4 + cs[2] \div 16
             b2 == (cs[2] % 16) * 16 + cs[3] \div 4
             b3 == (cs[3] % 4) * 64 + cs[4]
         IN  IF cs[3] = 64 THEN <<b1>>
             ELSE IF cs[4] = 64 THEN <<b1, b2>>
             ELSE <<b1, b2, b3>> \o b64decode(SubSeq(cs, 5, Len(cs)))

\* A slip that counts the chunks as len // chunk_size + 1.
chunk_image_floor(self, bytes) ==
    LET total_size == Len(bytes)
        num_chunks == total_size \div self.chunk_size + 1
    IN  [n \in 1..num_chunks |->
            LET i     == n - 1
                start == i * self.chunk_size
                end   == Min(start + self.chunk_size, total_size)
                chunk == SubSeq(bytes, start + 1, end)
            IN  [index |-> i, b64 |-> b64encode(chunk), size |-> Len(chunk)]]

\* ImageProcessor.chunk_image(self, image_bytes); self carries chunk_size
chunk_image_self(self, bytes) ==
    LET total_size == Len(bytes)
        num_chunks == (total_size + self.chunk_size - 1) \div self.chunk_size
    IN  [n \in 1..num_chunks |->
            LET i     == n - 1
                start == i * self.chunk_size
                end   == Min(start + self.chunk_size, total_size)
                chunk == SubSeq(bytes, start + 1, end)
            IN  [index |-> i, b64 |-> b64encode(chunk), size |-> Len(chunk)]]

\* the module's instance: image_processor = ImageProcessor()
image_processor == [chunk_size |-> chunk_size]

chunk_image(bytes) == chunk_image_self(image_processor, bytes)

\* sorted(chunks, key=lambda x: x['index']): a stable sort of the list
RECURSIVE sort_insert(_, _)
sort_insert(x, sorted) ==
    IF sorted = <<>> \/ x.index <= Head(sorted).index
    THEN <<x>> \o sorted
    ELSE <<Head(sorted)>> \o sort_insert(x, Tail(sorted))

RECURSIVE sorted_by_index(_)
sorted_by_index(cks) ==
    IF cks = <<>> THEN <<>> ELSE sort_insert(Head(cks), sorted_by_index(Tail(cks)))

RECURSIVE decode_all(_)
decode_all(cks) ==
    IF cks = <<>> THEN <<>> ELSE b64decode(Head(cks).b64) \o decode_all(Tail(cks))

\* A slip that concatenates the chunks in the order of the list it is given.
reconstruct_image_unsorted(cks) == decode_all(cks)

\* ImageProcessor.reconstruct_image: sort the list by index, decode and
\* concatenate
reconstruct_image(cks) == decode_all(sorted_by_index(cks))

----------------------------------------------------------------------------
(* database/pinecone.py: the evidence store *)

\* Python's None
None == [none |-> TRUE]

\* a stored vector: what upsert_vector writes and fetch_vector returns
Vector(id, values, metadata) == [id |-> id, values |-> values, metadata |-> metadata]

upsert_vector(coll, vector_id, vector, metadata) ==
    Upsert(coll, vector_id, Vector(vector_id, vector, metadata))

\* result.vectors.get(vector_id)
fetch_vector(coll, vector_id) ==
    IF vector_id \in DOMAIN coll THEN coll[vector_id] ELSE None

RECURSIVE Pick(_, _)
Pick(S, k) ==
    IF k = 0 THEN {{}}
    ELSE UNION {{T \cup {x} : T \in Pick(S \ {x}, k - 1)} : x \in S}

RECURSIVE Drop(_, _)
Drop(S, d) ==
    IF d = 0 THEN {S}
    ELSE UNION {Drop(S \ {x}, d - 1) : x \in S}

\* the subsets of S with exactly k elements (k <= |S|)
KSubsets(S, k) ==
    IF 2 * k <= Cardinality(S) THEN Pick(S, k) ELSE Drop(S, Cardinality(S) - k)

NoFilter == [k \in {} |-> 0]

\* index.query(vector, top_k, include_metadata, filter).  The probe is the
\* fixed placeholder vector, so the ranking among the vectors that pass the
\* filter is the store's: an answer is any top_k of them, all of them when
\* there are no more than top_k.  A match is named by its id; its metadata is
\* the stored one.
query_passing(coll, filter_dict) ==
    {id \in DOMAIN coll :
        \A k \in DOMAIN filter_dict :
            /\ k \in DOMAIN coll[id].metadata
            /\ coll[id].metadata[k] = filter_dict[k]}

\* the sets of passing vectors that an answer may leave out
query_left_out(coll, top_k, filter_dict) ==
    LET passing == query_passing(coll, filter_dict)
    IN  KSubsets(passing, Cardinality(passing) - Min(top_k, Cardinality(passing)))

\* every answer the store may give
query_vectors(coll, top_k, filter_dict) ==
    {query_passing(coll, filter_dict) \ left_out :
        left_out \in query_left_out(coll, top_k, filter_dict)}

----------------------------------------------------------------------------
(* lib/verification_pipeline.py: keys and records *)

\* f"proof::{proof_id}#chunk::{index}" and f"proof::{proof_id}#thumb"
proof_chunk_id(proof_id, index) == <<"proof", proof_id, 0, "chunk", index>>

proof_thumb_chunk_id(proof_id) == <<"proof", proof_id, 0, "thumb", 0>>

\* f"complaint::{complaint_id}::media::{media_id}#chunk::{index}" and "...#thumb"
complaint_chunk_id(complaint_id, media_id, index) ==
    <<"complaint", complaint_id, media_id, "chunk", index>>

complaint_thumb_chunk_id(complaint_id, media_id) ==
    <<"complaint", complaint_id, media_id, "thumb", 0>>

\* f"complaint::{complaint_id}::media::{media_id}"
complaint_vector_id(complaint_id, media_id) == <<"complaint", complaint_id, media_id>>

SeqRange(s) == {s[n] : n \in DOMAIN s}

\* the chunk upserts of an ingestion followed by the thumbnail upsert
StoreBlob(coll, chunk_ids, cks, thumb_chunk_id, thumbnail) ==
    LET thumb_vector ==
            Vector(thumb_chunk_id, metadata_vector,
                   [chunk_index |-> 0 - 1,
                    bytes_len   |-> Len(thumbnail),
                    b64         |-> b64encode(thumbnail)])
        chunk_vectors ==
            [k \in SeqRange(chunk_ids) |->
                LET n == CHOOSE m \in DOMAIN chunk_ids : chunk_ids[m] = k
                IN  Vector(k, metadata_vector,
                           [chunk_index |-> cks[n].index,
                            bytes_len   |-> cks[n].size,
                            b64         |-> cks[n].b64])]
    IN  (thumb_chunk_id :> thumb_vector) @@ chunk_vectors @@ coll

proof_chunk_ids(proof_id, cks) == [n \in DOMAIN cks |-> proof_chunk_id(proof_id, cks[n].index)]

proof_metadata(proof_id, complaint_id, worker_id, image, lat, lon, ts_iso, recycled_flag) ==
    [proof_id      |-> proof_id,
     complaint_id  |-> complaint_id,
     worker_id     |-> worker_id,
     ts_iso        |-> ts_iso,
     lat           |-> lat,
     lon           |-> lon,
     pHash         |-> compute_phash(image),
     chunks        |-> proof_chunk_ids(proof_id, chunk_image(image_bytes(image))),
     thumb_chunk   |-> proof_thumb_chunk_id(proof_id),
     recycled_flag |-> recycled_flag,
     size_bytes    |-> Len(image_bytes(image))]

\* the entry written to phash_index, given what the fetch under the exact
\* digest returned: the fetched list with proof_id appended, or a new list
phash_entry_from(existing_phash_record, phash, proof_id, ts_iso) ==
    IF existing_phash_record # None
    THEN [phash     |-> phash,
          proof_ids |-> Append(Get(existing_phash_record.metadata, "proof_ids", <<>>),
                               proof_id),
          last_seen |-> ts_iso]
    ELSE [phash |-> phash, proof_ids |-> <<proof_id>>, last_seen |-> ts_iso]

\* the phash_index upsert of ingest_proof: append to the entry fetched under
\* the exact digest, or start a list
phash_entry(index, phash, proof_id, ts_iso) ==
    phash_entry_from(fetch_vector(index, phash), phash, proof_id, ts_iso)

----------------------------------------------------------------------------
(* Bounds and inputs of the modelled callers *)

MaxProofId == 2

MaxComplaintId == 1

\* ingest_complaint is called at most this many times
MaxComplaintRecords == 2

\* verify_proof returns a report at most this many times
MaxAudits == 1

\* ingest_proof is called at most this many times
MaxIngests == 2

ProofIds == 1..MaxProofId

ComplaintIds == 1..MaxComplaintId

Workers == {1}

\* latitudes in 1e-4 degree north of 37.7749: 1 step is about 11 m, 10 about 111 m
ComplaintLats == {0}

ProofLats == {1, 10}

ComplaintImages == {1}

\* one meridian for every stamp
Lons == {0}

Timestamps == {1}

Metadatas == {[issue_type |-> "general"]}

\* compute_image_similarity of two thumbnails: opaque; the second outcome is
\* also what its except branch returns
SimilarityOutcomes ==
    {[ssim |-> 900, pixel_diff_norm |-> 100],
     [ssim |-> 0,   pixel_diff_norm |-> 1000]}

\* detect_manipulation of the full image: opaque
ManipulationOutcomes ==
    {[manipulation_probability |-> 100], [manipulation_probability |-> 900]}

\* verify_with_vlm: opaque; the second outcome is its documented default
VlmOutcomes ==
    {[work_completion_score |-> 9, recommendation |-> "approve"],
     [work_completion_score |-> 1, recommendation |-> "human_review"]}

----------------------------------------------------------------------------
(* lib/verification_pipeline.py: the three entry points *)

\* the handler's except branch: log and re-raise, nothing written
Raise(op, args, error) ==
    /\ result' = [op |-> op, args |-> args, status |-> "error", error |-> error]
    /\ UNCHANGED <<complaints_before, proofs, chunks, phash_index, audits, calc, inflight>>

\* A slip that hands out the same id every time.
uuid4_reused(used) == 1

\* uuid.uuid4(): a value no key of the collection carries yet
uuid4(used) == Cardinality(used) + 1

\* A slip that enters the before-image in the fingerprint index.
ingest_complaint_indexed(complaint_id, image, lat, lon, ts_iso, metadata) ==
    /\ LET media_id       == uuid4(DOMAIN complaints_before)
           embedding      == get_clip_embedding(image)
           phash          == compute_phash(image)
           thumbnail      == create_thumbnail(image)
           cks            == chunk_image(image_bytes(image))
           chunk_ids      == [n \in DOMAIN cks |->
                                 complaint_chunk_id(complaint_id, media_id, cks[n].index)]
           thumb_chunk_id == complaint_thumb_chunk_id(complaint_id, media_id)
           complaint_metadata ==
               [complaint_id |-> complaint_id,
                media_id     |-> media_id,
                ts_iso       |-> ts_iso,
                lat          |-> lat,
                lon          |-> lon,
                pHash        |-> phash,
                chunks       |-> chunk_ids,
                thumb_chunk  |-> thumb_chunk_id,
                issue_type   |-> metadata.issue_type]
           vector_id      == complaint_vector_id(complaint_id, media_id)
       IN  /\ chunks' = StoreBlob(chunks, chunk_ids, cks, thumb_chunk_id, thumbnail)
           /\ complaints_before' =
                  upsert_vector(complaints_before, vector_id, embedding, complaint_metadata)
           /\ phash_index' = upsert_vector(phash_index, phash, metadata_vector,
                                           [phash |-> phash, proof_ids |-> <<>>,
                                            last_seen |-> ts_iso])
           /\ result' = [op     |-> "ingest_complaint",
                         args   |-> [complaint_id |-> complaint_id, image |-> image,
                                     lat |-> lat, lon |-> lon, ts_iso |-> ts_iso],
                         status |-> "ok",
                         ret    |-> [complaint_id |-> complaint_id,
                                     media_id     |-> media_id,
                                     status       |-> "ingested"]]
    /\ UNCHANGED <<proofs, audits, calc, inflight>>

ingest_complaint(complaint_id, image, lat, lon, ts_iso, metadata) ==
    /\ LET media_id       == uuid4(DOMAIN complaints_before)
           embedding      == get_clip_embedding(image)
           phash          == compute_phash(image)
           thumbnail      == create_thumbnail(image)
           cks            == chunk_image(image_bytes(image))
           chunk_ids      == [n \in DOMAIN cks |->
                                 complaint_chunk_id(complaint_id, media_id, cks[n].index)]
           thumb_chunk_id == complaint_thumb_chunk_id(complaint_id, media_id)
           complaint_metadata ==
               [complaint_id |-> complaint_id,
                media_id     |-> media_id,
                ts_iso       |-> ts_iso,
                lat          |-> lat,
                lon          |-> lon,
                pHash        |-> phash,
                chunks       |-> chunk_ids,
                thumb_chunk  |-> thumb_chunk_id,
                issue_type   |-> metadata.issue_type]
           vector_id      == complaint_vector_id(complaint_id, media_id)
       IN  /\ chunks' = StoreBlob(chunks, chunk_ids, cks, thumb_chunk_id, thumbnail)
           /\ complaints_before' =
                  upsert_vector(complaints_before, vector_id, embedding, complaint_metadata)
           /\ result' = [op     |-> "ingest_complaint",
                         args   |-> [complaint_id |-> complaint_id, image |-> image,
                                     lat |-> lat, lon |-> lon, ts_iso |-> ts_iso],
                         status |-> "ok",
                         ret    |-> [complaint_id |-> complaint_id,
                                     media_id     |-> media_id,
                                     status       |-> "ingested"]]
    /\ UNCHANGED <<proofs, phash_index, audits, calc, inflight>>

\* the index entries for which is_duplicate(phash, existing_phash) holds
duplicate_entries(index, phash) ==
    {id \in DOMAIN index :
        is_duplicate(phash, Get(index[id].metadata, "phash", <<>>), DefaultThreshold)}

\* "Check for duplicates in phash_index": the flag the loop over the matches
\* leaves, for every answer the store may give to the top-100 probe
duplicate_check(index, phash) ==
    LET duplicates == duplicate_entries(index, phash)
        passing    == query_passing(index, NoFilter)
    IN  {LET phash_results == passing \ left_out
         IN  \E match \in phash_results : match \in duplicates :
            left_out \in query_left_out(index, TopK, NoFilter)}

ingest_proof(proof_id, complaint_id, worker_id, image, lat, lon, ts_iso) ==
    LET embedding      == get_clip_embedding(image)
        phash          == compute_phash(image)
        thumbnail      == create_thumbnail(image)
        cks            == chunk_image(image_bytes(image))
        chunk_ids      == proof_chunk_ids(proof_id, cks)
        thumb_chunk_id == proof_thumb_chunk_id(proof_id)
    IN  /\ chunks' = StoreBlob(chunks, chunk_ids, cks, thumb_chunk_id, thumbnail)
        /\ \E recycled_flag \in duplicate_check(phash_index, phash) :
                  /\ proofs' = upsert_vector(proofs, proof_id, embedding,
                                   proof_metadata(proof_id, complaint_id, worker_id,
                                                  image, lat, lon, ts_iso, recycled_flag))
                  /\ result' = [op     |-> "ingest_proof",
                                args   |-> [proof_id |-> proof_id,
                                            complaint_id |-> complaint_id,
                                            worker_id |-> worker_id, image |-> image,
                                            lat |-> lat, lon |-> lon, ts_iso |-> ts_iso],
                                status |-> "ok",
                                ret    |-> [proof_id      |-> proof_id,
                                            status        |-> "ingested",
                                            recycled_flag |-> recycled_flag]]
        /\ phash_index' = upsert_vector(phash_index, phash, metadata_vector,
                                        phash_entry(phash_index, phash, proof_id, ts_iso))
        /\ UNCHANGED <<complaints_before, audits, calc, inflight>>

\* _reconstruct_full_image: the chunks are fetched in the order of chunk_ids,
\* those that cannot be fetched are skipped
reconstruct_full_image(chunk_ids) ==
    LET Fetched(id) == fetch_vector(chunks, id) # None
        fetched     == SelectSeq(chunk_ids, Fetched)
    IN  reconstruct_image(
            [n \in DOMAIN fetched |->
                [index |-> chunks[fetched[n]].metadata.chunk_index,
                 b64   |-> chunks[fetched[n]].metadata.b64]])

\* A slip that forgets the recycled flag in the gate.
needs_manipulation_check_radius_only(recycled_flag, distance_m) == distance_m > 50000

\* A slip that lets the estimator run from 50 m on.
needs_manipulation_check_from_50(recycled_flag, distance_m) ==
    recycled_flag \/ distance_m >= 50000

\* A slip that lets the estimator run on every proof.
needs_manipulation_check_always(recycled_flag, distance_m) == TRUE

\* "if recycled_flag or distance_m > 50": the gate of the manipulation estimator
needs_manipulation_check(recycled_flag, distance_m) == recycled_flag \/ distance_m > 50000

\* 1.0 - (proof_vector.score if hasattr(proof_vector, 'score') else 0.5)
embedding_similarity(proof_vector) ==
    1000 - (IF "score" \in DOMAIN proof_vector THEN proof_vector.score ELSE 500)

\* the report and the audit record of a verification that ran to its end
Report(proof_id, complaint_id, decision, distance_m, recycled_flag, manipulation_result, vlm_result, score_data) ==
    [proof_id            |-> proof_id,
     complaint_id        |-> complaint_id,
     verification_status |-> decision,
     location_validation |->
        [distance_from_complaint_meters |-> distance_m,
         within_acceptable_radius       |-> distance_m <= 50000,
         validation_passed              |-> distance_m <= 50000],
     quality_assessment  |-> [work_completion_score |-> vlm_result.work_completion_score],
     authenticity_check  |->
        [is_original_photo       |-> ~recycled_flag,
         recycled_photo_detected |-> recycled_flag,
         manipulation_detected   |-> manipulation_result.manipulation_probability >= 850],
     scoring             |-> score_data,
     recommendation      |-> vlm_result.recommendation,
     flagged_for_review  |-> decision = "QUESTIONABLE"]

\* A slip that answers a missing proof with a verdict instead of raising.
proof_not_found_rejects(proof_id) ==
    LET audit_id == uuid4(DOMAIN audits)
    IN  /\ audits' = upsert_vector(audits, <<"audit", audit_id>>, metadata_vector,
                                   [proof_id |-> proof_id, decision |-> "REJECTED"])
        /\ result' = [op |-> "verify_proof", args |-> [proof_id |-> proof_id],
                      status |-> "ok",
                      ret |-> [proof_id |-> proof_id, verification_status |-> "REJECTED"]]
        /\ UNCHANGED <<complaints_before, proofs, chunks, phash_index, calc, inflight>>

\* "if not proof_vector: raise ValueError", caught, logged and re-raised
proof_not_found(proof_id) ==
    Raise("verify_proof", [proof_id |-> proof_id], "ValueError: Proof not found")

\* A slip that answers a missing complaint with a verdict instead of raising.
complaint_not_found_rejects(proof_id, complaint_id) ==
    LET audit_id == uuid4(DOMAIN audits)
    IN  /\ audits' = upsert_vector(audits, <<"audit", audit_id>>, metadata_vector,
                                   [proof_id |-> proof_id, complaint_id |-> complaint_id,
                                    decision |-> "REJECTED"])
        /\ result' = [op |-> "verify_proof", args |-> [proof_id |-> proof_id],
                      status |-> "ok",
                      ret |-> [proof_id |-> proof_id, complaint_id |-> complaint_id,
                               verification_status |-> "REJECTED"]]
        /\ UNCHANGED <<complaints_before, proofs, chunks, phash_index, calc, inflight>>

\* "if not complaint_results.matches: raise ValueError"
complaint_not_found(proof_id, complaint_id) ==
    Raise("verify_proof", [proof_id |-> proof_id], "ValueError: Complaint not found")

\* What the assessor service answers to chat.completions.create:
\*   kind "json"  : text that json.loads parses, value is the parsed object
\*   kind "text"  : text that json.loads rejects (JSONDecodeError)
\*   kind "error" : the call itself raises
WellFormedResponses == {[kind |-> "json", value |-> v] : v \in VlmOutcomes}

MalformedResponses ==
    {[kind |-> "text"],
     [kind |-> "error"],
     [kind |-> "json", value |-> [recommendation |-> "approve"]],
     [kind |-> "json", value |-> [work_completion_score |-> 9]]}

AssessorResponses == WellFormedResponses \cup MalformedResponses

\* the default both except branches of verify_with_vlm return
VlmDefault == [work_completion_score |-> 1, recommendation |-> "human_review"]

\* verify_with_vlm: the parsed object as it is, or the default when parsing or
\* the service call raised
verify_with_vlm(response) ==
    IF response.kind = "json" THEN response.value ELSE VlmDefault

\* the fields of vlm_result that verify_proof subscripts (of the nine it reads,
\* the two this model carries)
VlmFields == {"work_completion_score", "recommendation"}

missing_fields(vlm_result) == VlmFields \ DOMAIN vlm_result

\* vlm_result['work_completion_score'] is subscripted first (scoring_signals),
\* vlm_result['recommendation'] later (report)
KeyError(missing) ==
    IF "work_completion_score" \in missing
    THEN "KeyError: 'work_completion_score'"
    ELSE "KeyError: 'recommendation'"

\* A slip that writes the audit record a second time under the next id.
store_audit_twice(coll, audit_id, report, proof_id, complaint_id, decision) ==
    LET audit_metadata == [full_json_report_b64 |-> report, proof_id |-> proof_id, complaint_id |-> complaint_id, decision |-> decision]
    IN  upsert_vector(upsert_vector(coll, <<"audit", audit_id>>, metadata_vector, audit_metadata),
                      <<"audit", audit_id + 1>>, metadata_vector, audit_metadata)

\* "Store audit record": the upsert into audits
store_audit(coll, audit_id, report, proof_id, complaint_id, decision) ==
    upsert_vector(coll, <<"audit", audit_id>>, metadata_vector,
                  [full_json_report_b64 |-> report,
                   proof_id             |-> proof_id,
                   complaint_id         |-> complaint_id,
                   decision             |-> decision])

\* top_k of the reference-example query
ReferenceTopK == 3

\* the examples build_vlm_prompt puts in the prompt: few_shot_examples[:3]
PromptExamples == 3

\* the verified_reference_pairs records of a store that holds n of them; the
\* last one carries no notes
ReferencePairs(n) ==
    [id \in 1..n |->
        Vector(id, metadata_vector,
               IF id = n THEN [pair |-> id] ELSE [pair |-> id, notes |-> <<"notes", id>>])]

\* a call that raised instead of returning
Raised == [raised |-> TRUE]

\* the matches of an answer, as the list the store returns
RECURSIVE Matches(_, _)
Matches(coll, ids) ==
    IF ids = {} THEN <<>>
    ELSE LET first == CHOOSE id \in ids : \A other \in ids : id <= other
         IN  <<coll[first]>> \o Matches(coll, ids \ {first})

\* A slip that passes the failure of the reference query on as an example.
few_shot_examples_placeholder(ref_results) ==
    IF ref_results = Raised
    THEN <<[description |-> ""]>>
    ELSE [n \in DOMAIN ref_results.matches |->
             [description |-> Get(ref_results.matches[n].metadata, "notes", "")]]

\* few_shot_examples after the try/except around the reference query: empty
\* when the query raised, otherwise one description per match
few_shot_examples(ref_results) ==
    IF ref_results = Raised
    THEN <<>>
    ELSE [n \in DOMAIN ref_results.matches |->
             [description |-> Get(ref_results.matches[n].metadata, "notes", "")]]

\* build_vlm_prompt: the examples that enter the prompt text, and the metadata
build_vlm_prompt(metadata, examples) ==
    [examples |-> [n \in 1..Min(PromptExamples, Len(examples)) |->
                      Get(examples[n], "description", "Verified work completion")],
     metadata |-> metadata]

\* an environment where the assessor answers in the expected structure and
\* every store call succeeds, and one where neither is given
Sound ==
    [similarity      |-> SimilarityOutcomes,
     manipulation    |-> ManipulationOutcomes,
     responses       |-> WellFormedResponses,
     write_fails     |-> {FALSE},
     reference_pairs |-> ReferencePairs(1),
     reference_fails |-> {FALSE}]

Faulty ==
    [similarity      |-> {[ssim |-> 900, pixel_diff_norm |-> 100]},
     manipulation    |-> {[manipulation_probability |-> 900]},
     responses       |-> AssessorResponses,
     write_fails     |-> BOOLEAN,
     reference_pairs |-> ReferencePairs(ReferenceTopK + 1),
     reference_fails |-> BOOLEAN]

\* verify_proof from the manipulation gate to the report: the gate, the
\* scoring signals, the score, the verdict and the report, all from the one
\* distance_m computed before
score_and_report(proof_id, complaint_id, embedding_sim, distance_m, recycled_flag, similarity_metrics, detected, vlm_result) ==
    LET invoked == needs_manipulation_check(recycled_flag, distance_m)
        manipulation_result ==
            IF invoked THEN detected ELSE [manipulation_probability |-> 0]
        scoring_signals ==
            [embedding_sim             |-> embedding_sim,
             ssim                      |-> similarity_metrics.ssim,
             pixel_diff_norm           |-> similarity_metrics.pixel_diff_norm,
             vlm_work_completion_score |-> vlm_result.work_completion_score,
             distance_m                |-> distance_m,
             manipulation_probability  |-> manipulation_result.manipulation_probability,
             recycled_flag             |-> recycled_flag,
             worker_present            |-> TRUE]
        score_data == compute_composite_score(scoring_signals)
        decision   == make_decision(score_data.composite_score, scoring_signals)
    IN  [invoked             |-> invoked,
         manipulation_result |-> manipulation_result,
         scoring_signals     |-> scoring_signals,
         score_data          |-> score_data,
         decision            |-> decision,
         report              |-> Report(proof_id, complaint_id, decision, distance_m,
                                        recycled_flag, manipulation_result, vlm_result,
                                        score_data)]

\* verify_proof in an environment env: what compute_image_similarity, the
\* manipulation estimator and the assessor service may answer, and whether the
\* audit upsert may raise
verify_proof_in(proof_id, env) ==
    LET proof_vector == fetch_vector(proofs, proof_id)
    IN  IF proof_vector = None
        THEN proof_not_found(proof_id)
        ELSE
        LET proof_meta   == proof_vector.metadata
            complaint_id == proof_meta.complaint_id
        IN  \E complaint_results \in
                  query_vectors(complaints_before, 1, [complaint_id |-> complaint_id]) :
            IF complaint_results = {}
            THEN complaint_not_found(proof_id, complaint_id)
            ELSE
            \E complaint_match \in complaint_results :
            LET complaint_meta        == complaints_before[complaint_match].metadata
                proof_thumb_chunk     == fetch_vector(chunks, proof_meta.thumb_chunk)
                complaint_thumb_chunk == fetch_vector(chunks, complaint_meta.thumb_chunk)
            IN  IF proof_thumb_chunk = None \/ complaint_thumb_chunk = None
                THEN Raise("verify_proof", [proof_id |-> proof_id],
                           "AttributeError: 'NoneType' object has no attribute 'metadata'")
                ELSE
                \E similarity_metrics \in env.similarity,
                   detected \in env.manipulation,
                   response \in env.responses,
                   write_fails \in env.write_fails,
                   reference_fails \in env.reference_fails,
                   reference_matches \in
                       query_vectors(env.reference_pairs, ReferenceTopK, NoFilter) :
                LET vlm_result      == verify_with_vlm(response)
                    ref_results     ==
                        IF reference_fails THEN Raised
                        ELSE [matches |-> Matches(env.reference_pairs, reference_matches)]
                    embedding_sim   == embedding_similarity(proof_vector)
                    distance_m      == haversine_distance(complaint_meta.lat, complaint_meta.lon,
                                                          proof_meta.lat, proof_meta.lon)
                    recycled_flag   == Get(proof_meta, "recycled_flag", FALSE)
                    run == score_and_report(proof_id, complaint_id, embedding_sim,
                                            distance_m, recycled_flag, similarity_metrics,
                                            detected, vlm_result)
                    invoked             == run.invoked
                    manipulation_result == run.manipulation_result
                    vlm_metadata ==
                        [complaint_ts    |-> complaint_meta.ts_iso,
                         proof_ts        |-> proof_meta.ts_iso,
                         distance_m      |-> distance_m,
                         embedding_sim   |-> embedding_sim,
                         ssim            |-> similarity_metrics.ssim,
                         pixel_diff_norm |-> similarity_metrics.pixel_diff_norm,
                         manip_prob      |-> manipulation_result.manipulation_probability,
                         recycled_flag   |-> recycled_flag,
                         worker_present  |-> TRUE,
                         issue_type      |-> Get(complaint_meta, "issue_type", "general")]
                    scoring_signals == run.scoring_signals
                    decision   == run.decision
                    report     == run.report
                    audit_id   == uuid4(DOMAIN audits)
                IN  IF missing_fields(vlm_result) # {}
                    THEN Raise("verify_proof", [proof_id |-> proof_id],
                               KeyError(missing_fields(vlm_result)))
                    ELSE IF write_fails
                    THEN Raise("verify_proof", [proof_id |-> proof_id],
                               "Exception: upsert to audits failed")
                    ELSE
                    /\ audits' = store_audit(audits, audit_id, report, proof_id,
                                             complaint_id, decision)
                    /\ result' = [op     |-> "verify_proof",
                                  args   |-> [proof_id |-> proof_id],
                                  status |-> "ok",
                                  ret    |-> report,
                                  \* what the collaborators were called with
                                  estimator_calls |->
                                      IF invoked
                                      THEN <<reconstruct_full_image(proof_meta.chunks)>>
                                      ELSE <<>>,
                                  vlm_metadata    |-> vlm_metadata,
                                  ref_results     |-> ref_results,
                                  vlm_messages    |->
                                      build_vlm_prompt(vlm_metadata,
                                                       few_shot_examples(ref_results)),
                                  vlm_response    |-> response,
                                  scoring_signals |-> scoring_signals]
                    /\ UNCHANGED <<complaints_before, proofs, chunks, phash_index, calc, inflight>>

\* verify_proof where the assessor answers in the expected structure and the
\* store accepts the audit write
verify_proof(proof_id) == verify_proof_in(proof_id, Sound)

----------------------------------------------------------------------------
(* lib/verification_pipeline.py: ingestion when a store call raises.  The    *)
(* handlers have no rollback: the except branch logs and re-raises, so the   *)
(* writes made before the failing call stay.  A call that raises writes      *)
(* nothing.                                                                  *)

\* the chunk upserts of an ingestion, without the thumbnail upsert
StoreChunks(coll, chunk_ids, cks) ==
    [k \in SeqRange(chunk_ids) |->
        LET n == CHOOSE m \in DOMAIN chunk_ids : chunk_ids[m] = k
        IN  Vector(k, metadata_vector,
                   [chunk_index |-> cks[n].index,
                    bytes_len   |-> cks[n].size,
                    b64         |-> cks[n].b64])] @@ coll

\* the store calls of ingest_complaint and of ingest_proof, in program order
ComplaintStoreCalls == {"chunks", "thumb", "complaints_before"}

ProofStoreCalls == {"chunks", "thumb", "probe", "proofs", "phash_index"}

StoreError(failed) == "Exception: store call failed: " \o failed

\* A slip that writes the ComplaintRecord before its blobs.
ingest_complaint_record_first(complaint_id, image, lat, lon, ts_iso, metadata, failed) ==
    LET media_id       == uuid4(DOMAIN complaints_before)
        cks            == chunk_image(image_bytes(image))
        chunk_ids      == [n \in DOMAIN cks |-> complaint_chunk_id(complaint_id, media_id, cks[n].index)]
        thumb_chunk_id == complaint_thumb_chunk_id(complaint_id, media_id)
    IN  /\ complaints_before' =
               IF failed = "complaints_before" THEN complaints_before
               ELSE upsert_vector(complaints_before,
                                  complaint_vector_id(complaint_id, media_id),
                                  get_clip_embedding(image),
                                  [complaint_id |-> complaint_id, media_id |-> media_id,
                                   ts_iso |-> ts_iso, lat |-> lat, lon |-> lon,
                                   pHash |-> compute_phash(image), chunks |-> chunk_ids,
                                   thumb_chunk |-> thumb_chunk_id,
                                   issue_type |-> metadata.issue_type])
        /\ chunks' = IF failed = "thumb"
                     THEN StoreChunks(chunks, chunk_ids, cks)
                     ELSE chunks
        /\ result' = [op     |-> "ingest_complaint",
                      args   |-> [complaint_id |-> complaint_id, image |-> image,
                                  lat |-> lat, lon |-> lon, ts_iso |-> ts_iso],
                      status |-> "error",
                      error  |-> StoreError(failed)]
        /\ UNCHANGED <<proofs, phash_index, audits, calc, inflight>>

\* ingest_complaint when the store call named by failed raises: chunk upserts,
\* thumbnail upsert, ComplaintRecord upsert, in this order
ingest_complaint_aborted(complaint_id, image, lat, lon, ts_iso, metadata, failed) ==
    LET media_id       == uuid4(DOMAIN complaints_before)
        cks            == chunk_image(image_bytes(image))
        chunk_ids      == [n \in DOMAIN cks |-> complaint_chunk_id(complaint_id, media_id, cks[n].index)]
        thumb_chunk_id == complaint_thumb_chunk_id(complaint_id, media_id)
    IN  /\ chunks' = CASE failed = "chunks" -> chunks
                       [] failed = "thumb"  -> StoreChunks(chunks, chunk_ids, cks)
                       [] OTHER -> StoreBlob(chunks, chunk_ids, cks, thumb_chunk_id,
                                             create_thumbnail(image))
        /\ result' = [op     |-> "ingest_complaint",
                      args   |-> [complaint_id |-> complaint_id, image |-> image,
                                  lat |-> lat, lon |-> lon, ts_iso |-> ts_iso],
                      status |-> "error",
                      error  |-> StoreError(failed)]
        /\ UNCHANGED <<complaints_before, proofs, phash_index, audits, calc, inflight>>

\* A slip that updates the fingerprint index before it stores the ProofRecord.
ingest_proof_index_first(proof_id, complaint_id, worker_id, image, lat, lon, ts_iso, failed) ==
    LET phash          == compute_phash(image)
        cks            == chunk_image(image_bytes(image))
        chunk_ids      == proof_chunk_ids(proof_id, cks)
        thumb_chunk_id == proof_thumb_chunk_id(proof_id)
    IN  /\ chunks' = CASE failed = "chunks" -> chunks
                       [] failed = "thumb"  -> StoreChunks(chunks, chunk_ids, cks)
                       [] OTHER -> StoreBlob(chunks, chunk_ids, cks, thumb_chunk_id,
                                             create_thumbnail(image))
        /\ phash_index' = IF failed = "proofs"
                          THEN upsert_vector(phash_index, phash, metadata_vector,
                                             phash_entry(phash_index, phash, proof_id, ts_iso))
                          ELSE phash_index
        /\ result' = [op     |-> "ingest_proof",
                      args   |-> [proof_id |-> proof_id, complaint_id |-> complaint_id,
                                  worker_id |-> worker_id, image |-> image,
                                  lat |-> lat, lon |-> lon, ts_iso |-> ts_iso],
                      status |-> "error",
                      error  |-> StoreError(failed)]
        /\ UNCHANGED <<complaints_before, proofs, audits, calc, inflight>>

\* ingest_proof when the store call named by failed raises: chunk upserts,
\* thumbnail upsert, duplicate probe, ProofRecord upsert, fingerprint-index
\* upsert, in this order
ingest_proof_aborted(proof_id, complaint_id, worker_id, image, lat, lon, ts_iso, failed) ==
    LET embedding      == get_clip_embedding(image)
        phash          == compute_phash(image)
        cks            == chunk_image(image_bytes(image))
        chunk_ids      == proof_chunk_ids(proof_id, cks)
        thumb_chunk_id == proof_thumb_chunk_id(proof_id)
    IN  /\ chunks' = CASE failed = "chunks" -> chunks
                       [] failed = "thumb"  -> StoreChunks(chunks, chunk_ids, cks)
                       [] OTHER -> StoreBlob(chunks, chunk_ids, cks, thumb_chunk_id,
                                             create_thumbnail(image))
        /\ IF failed = "phash_index"
           THEN \E recycled_flag \in duplicate_check(phash_index, phash) :
                   proofs' = upsert_vector(proofs, proof_id, embedding,
                                 proof_metadata(proof_id, complaint_id, worker_id,
                                                image, lat, lon, ts_iso, recycled_flag))
           ELSE proofs' = proofs
        /\ result' = [op     |-> "ingest_proof",
                      args   |-> [proof_id |-> proof_id, complaint_id |-> complaint_id,
                                  worker_id |-> worker_id, image |-> image,
                                  lat |-> lat, lon |-> lon, ts_iso |-> ts_iso],
                      status |-> "error",
                      error  |-> StoreError(failed)]
        /\ UNCHANGED <<complaints_before, phash_index, audits, calc, inflight>>

----------------------------------------------------------------------------
(* lib/verification_pipeline.py: ingest_proof store call by store call.      *)
(* The handler holds no lock and the store has no read-modify-write, so      *)
(* calls served by different worker processes on the one store interleave    *)
(* at their store calls.  (Inside one event loop a call runs to its end: the *)
(* handler awaits nothing.)                                                  *)

\* the arguments every racing call shares
RaceComplaintId == 1

RaceWorkerId == 1

RaceLat == 1

RaceLon == 0

RaceTs == 1

\* the call ids that have returned
Done(calls) == {c \in DOMAIN calls : calls[c].pc = "done"}

\* chunk and thumbnail upserts (lines 126-155); the call gets the next call id
\* and notes which calls had returned when it started
start_ingest_proof(proof_id, image) ==
    LET c              == Cardinality(DOMAIN inflight) + 1
        cks            == chunk_image(image_bytes(image))
        chunk_ids      == proof_chunk_ids(proof_id, cks)
        thumb_chunk_id == proof_thumb_chunk_id(proof_id)
    IN  /\ chunks' = StoreBlob(chunks, chunk_ids, cks, thumb_chunk_id, create_thumbnail(image))
        /\ inflight' = (c :> [pc            |-> "probe",
                              proof_id      |-> proof_id,
                              image         |-> image,
                              started_after |-> Done(inflight)]) @@ inflight
        /\ UNCHANGED <<complaints_before, proofs, phash_index, audits, result, calc>>

\* the duplicate probe (lines 157-167)
probe_duplicates(c) ==
    /\ inflight[c].pc = "probe"
    /\ \E recycled_flag \in duplicate_check(phash_index, compute_phash(inflight[c].image)) :
          inflight' = [inflight EXCEPT ![c] =
                          [pc |-> "store_proof", recycled_flag |-> recycled_flag] @@ @]
    /\ UNCHANGED <<complaints_before, proofs, chunks, phash_index, audits, result, calc>>

\* the ProofRecord upsert (lines 169-186)
store_proof(c) ==
    /\ inflight[c].pc = "store_proof"
    /\ proofs' = upsert_vector(proofs, inflight[c].proof_id,
                               get_clip_embedding(inflight[c].image),
                               proof_metadata(inflight[c].proof_id, RaceComplaintId,
                                              RaceWorkerId, inflight[c].image, RaceLat,
                                              RaceLon, RaceTs, inflight[c].recycled_flag))
    /\ inflight' = [inflight EXCEPT ![c].pc = "fetch_index"]
    /\ UNCHANGED <<complaints_before, chunks, phash_index, audits, result, calc>>

\* the fetch of the index entry under the exact digest (lines 188-195)
fetch_index(c) ==
    /\ inflight[c].pc = "fetch_index"
    /\ inflight' = [inflight EXCEPT ![c] =
                       [pc |-> "upsert_index",
                        existing_phash_record |->
                            fetch_vector(phash_index, compute_phash(inflight[c].image))] @@ @]
    /\ UNCHANGED <<complaints_before, proofs, chunks, phash_index, audits, result, calc>>

\* the index upsert built from what was fetched, and the return (lines 197-228)
upsert_index(c) ==
    /\ inflight[c].pc = "upsert_index"
    /\ phash_index' =
           upsert_vector(phash_index, compute_phash(inflight[c].image), metadata_vector,
                         phash_entry_from(inflight[c].existing_phash_record,
                                          compute_phash(inflight[c].image),
                                          inflight[c].proof_id, RaceTs))
    /\ inflight' = [inflight EXCEPT ![c].pc = "done"]
    /\ result' = [op     |-> "ingest_proof",
                  args   |-> [proof_id |-> inflight[c].proof_id,
                              complaint_id |-> RaceComplaintId,
                              worker_id |-> RaceWorkerId, image |-> inflight[c].image,
                              lat |-> RaceLat, lon |-> RaceLon, ts_iso |-> RaceTs],
                  status |-> "ok",
                  ret    |-> [proof_id      |-> inflight[c].proof_id,
                              status        |-> "ingested",
                              recycled_flag |-> inflight[c].recycled_flag]]
    /\ UNCHANGED <<complaints_before, proofs, chunks, audits, calc>>

----------------------------------------------------------------------------
(* The pipeline as a state machine *)

EmptyCollection == [k \in {} |-> 0]

NoCall == [op |-> "none", status |-> "none"]

IdleCalc == [pc |-> "idle"]

NoneInFlight == [c \in {} |-> 0]

\* The store after ingest_proof was called for n proofs 1001..1000+n, each with
\* its own photo (no two of their digests are duplicates, so none is flagged),
\* for a complaint 0 that was never ingested.
PreloadedBlob(p) ==
    LET cks == chunk_image(image_bytes(p))
    IN  StoreBlob(EmptyCollection, proof_chunk_ids(p, cks), cks,
                  proof_thumb_chunk_id(p), create_thumbnail(p))

PreloadedChunks(n) ==
    [k \in UNION {DOMAIN PreloadedBlob(1000 + i) : i \in 1..n} |-> PreloadedBlob(k[2])[k]]

PreloadedProofs(n) ==
    [p \in {1000 + i : i \in 1..n} |->
        Vector(p, get_clip_embedding(p), proof_metadata(p, 0, 0, p, 0, 0, 0, FALSE))]

PreloadedIndex(n) ==
    [h \in {compute_phash(1000 + i) : i \in 1..n} |->
        LET p == CHOOSE q \in {1000 + i : i \in 1..n} : compute_phash(q) = h
        IN  Vector(h, metadata_vector, phash_entry(EmptyCollection, h, p, 0))]

Init ==
    /\ complaints_before = EmptyCollection
    /\ audits = EmptyCollection
    /\ \E n \in {0, TopK} :
          /\ proofs = PreloadedProofs(n)
          /\ chunks = PreloadedChunks(n)
          /\ phash_index = PreloadedIndex(n)
    /\ result = NoCall
    /\ calc = IdleCalc
    /\ inflight = NoneInFlight

\* ingest_proof calls made by the modelled callers so far
ModelledIngests ==
    LET Mine(p) == p \in ProofIds
        RECURSIVE Sum(_)
        Sum(ks) == IF ks = {} THEN 0
                   ELSE LET k == CHOOSE x \in ks : TRUE
                        IN  Len(SelectSeq(phash_index[k].metadata.proof_ids, Mine))
                            + Sum(ks \ {k})
    IN  Sum({k \in DOMAIN phash_index : Len(phash_index[k].metadata.proof_ids) > 0
                /\ \E n \in DOMAIN phash_index[k].metadata.proof_ids :
                       phash_index[k].metadata.proof_ids[n] \in ProofIds})

Next ==
    \/ \E complaint_id \in ComplaintIds, image \in ComplaintImages, lat \in ComplaintLats,
          lon \in Lons, ts_iso \in Timestamps, metadata \in Metadatas :
          /\ Cardinality(DOMAIN complaints_before) < MaxComplaintRecords
          /\ ingest_complaint(complaint_id, image, lat, lon, ts_iso, metadata)
    \/ \E proof_id \in ProofIds, complaint_id \in ComplaintIds, worker_id \in Workers,
          image \in Images, lat \in ProofLats, lon \in Lons, ts_iso \in Timestamps :
          /\ ModelledIngests < MaxIngests
          /\ ingest_proof(proof_id, complaint_id, worker_id, image, lat, lon, ts_iso)
    \/ \E proof_id \in ProofIds :
          /\ verify_proof(proof_id)
          /\ Cardinality(DOMAIN audits') <= MaxAudits

Spec == Init /\ [][Next]_vars

----------------------------------------------------------------------------
(* The scoring engine on its own: calls with signal sets drawn from a grid *)

ScoreInputs == {0, 449999, 450000, 699999, 700000, 1000000}

FullSignalSets ==
    [embedding_sim             : {500, 1000},
     ssim                      : {0, 900},
     vlm_work_completion_score : {1, 9},
     distance_m                : {0, 50000, 50001, 111190},
     manipulation_probability  : {0, 849, 850, 1000},
     recycled_flag             : BOOLEAN]

\* signal sets, complete or with one key absent (signals.get falls back)
SignalSets ==
    FullSignalSets \cup
    {Without(s, {k}) : s \in FullSignalSets,
                       k \in {"distance_m", "manipulation_probability", "recycled_flag"}}

make_decision_call ==
    /\ calc.pc = "input"
    /\ calc' = [calc EXCEPT !.pc = "make_decision"] @@
               [decision |-> make_decision(calc.composite_score, calc.signals)]
    /\ UNCHANGED <<store_vars, inflight>>

compute_composite_score_call ==
    /\ calc.pc = "input"
    /\ calc' = [calc EXCEPT !.pc = "compute_composite_score"] @@
               [score_data |-> compute_composite_score(calc.signals)]
    /\ UNCHANGED <<store_vars, inflight>>

ScoreInit ==
    /\ complaints_before = EmptyCollection
    /\ proofs = EmptyCollection
    /\ chunks = EmptyCollection
    /\ phash_index = EmptyCollection
    /\ audits = EmptyCollection
    /\ result = NoCall
    /\ inflight = NoneInFlight
    /\ \E composite_score \in ScoreInputs, signals \in SignalSets :
          calc = [pc |-> "input", composite_score |-> composite_score, signals |-> signals]

ScoreNext == make_decision_call \/ compute_composite_score_call

ScoreSpec == ScoreInit /\ [][ScoreNext]_vars

----------------------------------------------------------------------------
(* The composite score on its own: compute_composite_score on signal sets    *)
(* inside and outside their ranges, then again with one signal changed       *)

\* the values tried for each signal
CompositeValues ==
    [embedding_sim             |-> {0 - 200, 0, 500, 1000, 1200},
     ssim                      |-> {0 - 500, 0, 900, 1000, 1500},
     vlm_work_completion_score |-> {0 - 5, 1, 9, 10, 20},
     distance_m                |-> {0, 50000, 50001},
     manipulation_probability  |-> {0 - 1000, 0, 849, 850, 1000, 2000},
     recycled_flag             |-> BOOLEAN]

CompositeSignalSets ==
    [embedding_sim             : CompositeValues.embedding_sim,
     ssim                      : CompositeValues.ssim,
     vlm_work_completion_score : CompositeValues.vlm_work_completion_score,
     distance_m                : CompositeValues.distance_m,
     manipulation_probability  : CompositeValues.manipulation_probability,
     recycled_flag             : CompositeValues.recycled_flag]

\* the signals whose value the second call changes
VariedSignals ==
    {"embedding_sim", "ssim", "vlm_work_completion_score", "manipulation_probability"}

CompositeInit ==
    /\ complaints_before = EmptyCollection
    /\ proofs = EmptyCollection
    /\ chunks = EmptyCollection
    /\ phash_index = EmptyCollection
    /\ audits = EmptyCollection
    /\ result = NoCall
    /\ inflight = NoneInFlight
    /\ \E signals \in CompositeSignalSets :
          calc = [pc |-> "input", signals |-> signals]

\* a second call with the signal set of the last call, one signal changed
compute_composite_score_again ==
    /\ calc.pc = "compute_composite_score"
    /\ \E k \in VariedSignals :
          \E value \in CompositeValues[k] \ {calc.signals[k]} :
             LET signals == [calc.signals EXCEPT ![k] = value]
             IN  calc' = [pc         |-> "compute_composite_score",
                          signals    |-> signals,
                          score_data |-> compute_composite_score(signals)]
    /\ UNCHANGED <<store_vars, inflight>>

CompositeNext == compute_composite_score_call \/ compute_composite_score_again

CompositeSpec == CompositeInit /\ [][CompositeNext]_vars

----------------------------------------------------------------------------
(* verify_proof from the gate to the report on its own, for distances on     *)
(* both sides of the 50 m radius and on it                                   *)

\* distances in millimetres
RadiusDistances == {0, 11119, 49999, 50000, 50001, 111190}

RadiusInit ==
    /\ complaints_before = EmptyCollection
    /\ proofs = EmptyCollection
    /\ chunks = EmptyCollection
    /\ phash_index = EmptyCollection
    /\ audits = EmptyCollection
    /\ result = NoCall
    /\ inflight = NoneInFlight
    /\ \E distance_m \in RadiusDistances, recycled_flag \in BOOLEAN,
          similarity_metrics \in SimilarityOutcomes, detected \in ManipulationOutcomes,
          vlm_result \in VlmOutcomes :
          calc = [pc                 |-> "input",
                  distance_m         |-> distance_m,
                  recycled_flag      |-> recycled_flag,
                  similarity_metrics |-> similarity_metrics,
                  detected           |-> detected,
                  vlm_result         |-> vlm_result]

score_and_report_call ==
    /\ calc.pc = "input"
    /\ calc' = [calc EXCEPT !.pc = "score_and_report"] @@
               [run |-> score_and_report(1, 1, embedding_similarity([id |-> 1]),
                                         calc.distance_m, calc.recycled_flag,
                                         calc.similarity_metrics, calc.detected,
                                         calc.vlm_result)]
    /\ UNCHANGED <<store_vars, inflight>>

RadiusNext == score_and_report_call

RadiusSpec == RadiusInit /\ [][RadiusNext]_vars

----------------------------------------------------------------------------
(* The pipeline when store calls may raise and the assessor may answer       *)
(* anything: the same three entry points over an initially empty store       *)

\* verify_proof returns a report at most this many times under FaultSpec
MaxFaultAudits == 2

\* one photo and one stamp (about 11 m from the complaint) for every proof
FaultImages == {1}

FaultLats == {1}

FaultProofIds == {1}

FaultComplaintIds == {1}

MaxFaultComplaintRecords == 1

FaultInit ==
    /\ complaints_before = EmptyCollection
    /\ proofs = EmptyCollection
    /\ chunks = EmptyCollection
    /\ phash_index = EmptyCollection
    /\ audits = EmptyCollection
    /\ result = NoCall
    /\ calc = IdleCalc
    /\ inflight = NoneInFlight

FaultNext ==
    \/ \E complaint_id \in FaultComplaintIds, image \in ComplaintImages, lat \in ComplaintLats,
          lon \in Lons, ts_iso \in Timestamps, metadata \in Metadatas :
          /\ Cardinality(DOMAIN complaints_before) < MaxFaultComplaintRecords
          /\ ingest_complaint(complaint_id, image, lat, lon, ts_iso, metadata)
    \/ \E complaint_id \in FaultComplaintIds, image \in ComplaintImages, lat \in ComplaintLats,
          lon \in Lons, ts_iso \in Timestamps, metadata \in Metadatas,
          failed \in ComplaintStoreCalls :
          /\ Cardinality(DOMAIN complaints_before) < MaxFaultComplaintRecords
          /\ ingest_complaint_aborted(complaint_id, image, lat, lon, ts_iso, metadata, failed)
    \/ \E proof_id \in FaultProofIds, complaint_id \in FaultComplaintIds, worker_id \in Workers,
          image \in FaultImages, lat \in FaultLats, lon \in Lons, ts_iso \in Timestamps :
          /\ ModelledIngests < MaxIngests
          /\ ingest_proof(proof_id, complaint_id, worker_id, image, lat, lon, ts_iso)
    \/ \E proof_id \in FaultProofIds, complaint_id \in FaultComplaintIds, worker_id \in Workers,
          image \in FaultImages, lat \in FaultLats, lon \in Lons, ts_iso \in Timestamps,
          failed \in ProofStoreCalls :
          /\ ModelledIngests < MaxIngests
          /\ ingest_proof_aborted(proof_id, complaint_id, worker_id, image, lat, lon,
                                  ts_iso, failed)
    \/ \E proof_id \in FaultProofIds :
          /\ verify_proof_in(proof_id, Faulty)
          /\ Cardinality(DOMAIN audits') <= MaxFaultAudits

FaultSpec == FaultInit /\ [][FaultNext]_vars

----------------------------------------------------------------------------
(* The chunker on its own: split a byte sequence, hand the chunk list on in  *)
(* any order, reconstruct                                                    *)

\* longest byte sequence and largest chunk size tried
MaxBytes == 4

MaxChunkSize == 3

ByteValues == {0, 65, 255}

ByteSequences == UNION {[1..n -> ByteValues] : n \in 1..MaxBytes}

\* the byte sequences handed to chunk_image: the empty one and the others
ChunkInputs == {<<>>} \cup ByteSequences

ChunkInit ==
    /\ complaints_before = EmptyCollection
    /\ proofs = EmptyCollection
    /\ chunks = EmptyCollection
    /\ phash_index = EmptyCollection
    /\ audits = EmptyCollection
    /\ result = NoCall
    /\ inflight = NoneInFlight
    /\ \E bytes \in ChunkInputs, size \in 1..MaxChunkSize :
          calc = [pc |-> "input", bytes |-> bytes, chunk_size |-> size]

chunk_image_call ==
    /\ calc.pc = "input"
    /\ calc' = [pc         |-> "chunk_image",
                bytes      |-> calc.bytes,
                chunk_size |-> calc.chunk_size,
                chunks     |-> chunk_image_self([chunk_size |-> calc.chunk_size], calc.bytes)]
    /\ UNCHANGED <<store_vars, inflight>>

\* the caller exchanges two neighbours of the chunk list
reorder_chunks ==
    /\ calc.pc = "chunk_image"
    /\ \E n \in 1..(Len(calc.chunks) - 1) :
          calc' = [calc EXCEPT !.chunks[n] = calc.chunks[n + 1],
                               !.chunks[n + 1] = calc.chunks[n]]
    /\ UNCHANGED <<store_vars, inflight>>

reconstruct_image_call ==
    /\ calc.pc = "chunk_image"
    /\ calc' = [pc          |-> "reconstruct_image",
                bytes       |-> calc.bytes,
                chunk_size  |-> calc.chunk_size,
                chunks      |-> calc.chunks,
                image_bytes |-> reconstruct_image(calc.chunks)]
    /\ UNCHANGED <<store_vars, inflight>>

ChunkNext == chunk_image_call \/ reorder_chunks \/ reconstruct_image_call

ChunkSpec == ChunkInit /\ [][ChunkNext]_vars

----------------------------------------------------------------------------
(* The duplicate test on its own: is_duplicate on pairs of 64-bit digests *)

\* bits of a perceptual hash
HashBits == 64

\* the digest whose bits lo+1..hi are set (bit b sits in hex digit b \div 4 + 1)
BitRun(lo, hi) ==
    [k \in 1..(HashBits \div 4) |->
        LET set == {b \in 0..3 : 4 * (k - 1) + b + 1 > lo /\ 4 * (k - 1) + b + 1 <= hi}
        IN  (IF 0 \in set THEN 1 ELSE 0)
            + (IF 1 \in set THEN 2 ELSE 0)
            + (IF 2 \in set THEN 4 ELSE 0)
            + (IF 3 \in set THEN 8 ELSE 0)]

\* pairs of digests: the first has its bits 1..a set, the second its bits
\* 1..b, so that they differ in exactly |a - b| bits
HashInit ==
    /\ complaints_before = EmptyCollection
    /\ proofs = EmptyCollection
    /\ chunks = EmptyCollection
    /\ phash_index = EmptyCollection
    /\ audits = EmptyCollection
    /\ result = NoCall
    /\ inflight = NoneInFlight
    /\ \E a \in 0..HashBits, b \in 0..HashBits :
          calc = [pc |-> "input", set1 |-> a, set2 |-> b,
                  hash1 |-> BitRun(0, a), hash2 |-> BitRun(0, b)]

is_duplicate_call ==
    /\ calc.pc = "input"
    /\ calc' = [calc EXCEPT !.pc = "is_duplicate"] @@
               [duplicate |-> is_duplicate(calc.hash1, calc.hash2, DefaultThreshold)]
    /\ UNCHANGED <<store_vars, inflight>>

HashNext == is_duplicate_call

HashSpec == HashInit /\ [][HashNext]_vars

----------------------------------------------------------------------------
(* The chunker when the store no longer returns every chunk: the list that  *)
(* _reconstruct_full_image hands to reconstruct_image leaves out the chunks  *)
(* whose fetch returned nothing (verification_pipeline.py lines 426-432)     *)

\* the fetch of the chunk at position n of the list returned nothing
lose_chunk ==
    /\ calc.pc = "chunk_image"
    /\ \E n \in 1..Len(calc.chunks) :
          calc' = [calc EXCEPT !.chunks = SubSeq(calc.chunks, 1, n - 1)
                                          \o SubSeq(calc.chunks, n + 1, Len(calc.chunks))]
    /\ UNCHANGED <<store_vars, inflight>>

LossyNext == ChunkNext \/ lose_chunk

LossySpec == ChunkInit /\ [][LossyNext]_vars

----------------------------------------------------------------------------
(* Two worker processes serving ingest_proof calls on one store *)

\* ingest_proof is called at most this many times under RaceSpec
MaxRaceCalls == 3

\* calls in progress at any one time
RaceWorkers == 2

RaceImages == {1}

RaceInit ==
    /\ complaints_before = EmptyCollection
    /\ audits = EmptyCollection
    /\ \E n \in {0, TopK} :
          /\ proofs = PreloadedProofs(n)
          /\ chunks = PreloadedChunks(n)
          /\ phash_index = PreloadedIndex(n)
    /\ result = NoCall
    /\ calc = IdleCalc
    /\ inflight = NoneInFlight

RaceNext ==
    \/ \E proof_id \in ProofIds, image \in RaceImages :
          /\ Cardinality(DOMAIN inflight) < MaxRaceCalls
          /\ Cardinality(DOMAIN inflight \ Done(inflight)) < RaceWorkers
          /\ start_ingest_proof(proof_id, image)
    \/ \E c \in DOMAIN inflight : probe_duplicates(c)
    \/ \E c \in DOMAIN inflight : store_proof(c)
    \/ \E c \in DOMAIN inflight : fetch_index(c)
    \/ \E c \in DOMAIN inflight : upsert_index(c)

RaceSpec == RaceInit /\ [][RaceNext]_vars

----------------------------------------------------------------------------
(* Properties *)

Verdicts == {"VERIFIED", "QUESTIONABLE", "REJECTED"}

\* a critical condition of the decision, as the spec words it
CriticalCondition(signals) ==
    \/ Get(signals, "recycled_flag", FALSE)
    \/ Get(signals, "manipulation_probability", 0) >= 850
    \/ Get(signals, "distance_m", 0) > 50000

\* the last call was verify_proof and it returned a report
Verified == result.op = "verify_proof" /\ result.status = "ok"

\* the complaint records that carry complaint_id
ComplaintRecords(complaint_id) ==
    {id \in DOMAIN complaints_before :
        complaints_before[id].metadata.complaint_id = complaint_id}

\* C1: make_decision returns REJECTED whenever a critical condition holds
\* (recycled_flag, manipulation_probability >= 0.85 or distance_m > 50),
\* whatever composite score is passed in.
C1_CriticalRejects ==
    (calc.pc = "make_decision" /\ CriticalCondition(calc.signals))
        => calc.decision = "REJECTED"

\* a recycled signal set with a score of at least 0.70 was decided
C1_Witness ==
    /\ calc.pc = "make_decision"
    /\ calc.composite_score >= 700000
    /\ Get(calc.signals, "recycled_flag", FALSE)
    /\ calc.decision = "REJECTED"

\* C4: with no critical condition the score alone decides: VERIFIED iff
\* score >= 0.70, QUESTIONABLE iff 0.45 <= score < 0.70, REJECTED iff
\* score < 0.45.
C4_ScoreDecides ==
    (calc.pc = "make_decision" /\ ~CriticalCondition(calc.signals))
        => /\ calc.decision = "VERIFIED" <=> calc.composite_score >= 700000
           /\ calc.decision = "QUESTIONABLE" <=>
                 (450000 <= calc.composite_score /\ calc.composite_score < 700000)
           /\ calc.decision = "REJECTED" <=> calc.composite_score < 450000

\* the boundary score 0.70 itself was decided VERIFIED
C4_Witness ==
    /\ calc.pc = "make_decision"
    /\ ~CriticalCondition(calc.signals)
    /\ calc.composite_score = 700000
    /\ calc.decision = "VERIFIED"

\* the stored record of the proof the last verify_proof was called for
VerifiedProof == proofs[result.args.proof_id].metadata

\* C2: an ingest_proof whose fingerprint duplicates the fingerprint of a proof
\* ingested earlier returns and stores recycled_flag = true, and every later
\* verify_proof of a proof stored as recycled reports REJECTED.
C2_DuplicateFlaggedThenRejected ==
    [][/\ (/\ result'.op = "ingest_proof"
           /\ \E q \in DOMAIN proofs :
                 is_duplicate(compute_phash(result'.args.image),
                              proofs[q].metadata.pHash, DefaultThreshold))
          => /\ result'.ret.recycled_flag
             /\ proofs'[result'.args.proof_id].metadata.recycled_flag
       /\ (/\ result'.op = "verify_proof"
           /\ result'.status = "ok"
           /\ proofs[result'.args.proof_id].metadata.recycled_flag)
          => result'.ret.verification_status = "REJECTED"]_vars

\* C3: an ingest_proof whose fingerprint is a duplicate of any fingerprint
\* recorded in phash_index sets recycled_flag = true, however many
\* fingerprints the index holds.
C3_AllFingerprintsChecked ==
    [][(/\ result'.op = "ingest_proof"
        /\ duplicate_entries(phash_index, compute_phash(result'.args.image)) # {})
       => result'.ret.recycled_flag]_vars

\* C5: a stored ProofRecord never changes again: not under verify_proof, not
\* under the ingestion of other proofs or of complaints, and not under a
\* repeated ingest_proof with the same proof_id and the same image.
C5_ProofRecordImmutable ==
    [][\A p \in DOMAIN proofs :
          \/ proofs'[p] = proofs[p]
          \/ /\ result'.op = "ingest_proof"
             /\ result'.args.proof_id = p
             /\ compute_phash(result'.args.image) # proofs[p].metadata.pHash]_vars

\* C6: verify_proof of a non-recycled proof about 11 m from its complaint, with
\* ssim 0.9, manipulation probability 0 and a work-completion score of 9/10,
\* computes distance_m <= 50, applies no penalty, obtains a composite score of
\* at least 0.70 and reports VERIFIED.
C6_GoodProofVerified ==
    (/\ Verified
     /\ ~result.scoring_signals.recycled_flag
     /\ result.scoring_signals.distance_m = MmPerLatStep
     /\ result.scoring_signals.ssim = 900
     /\ result.scoring_signals.manipulation_probability = 0
     /\ result.scoring_signals.vlm_work_completion_score = 9)
    => /\ result.ret.location_validation.distance_from_complaint_meters <= 50000
       /\ result.ret.scoring.components.manipulation_penalty = 0
       /\ result.ret.scoring.components.recycled_penalty = 0
       /\ result.ret.scoring.composite_score >= 700000
       /\ result.ret.verification_status = "VERIFIED"

\* C7: in verify_proof the manipulation estimator is invoked iff the stored
\* recycled_flag is true or distance_m > 50; when it is not invoked the
\* manipulation probability handed to the assessor and to the scoring engine
\* is exactly 0.
C7_EstimatorGate ==
    Verified =>
        LET distance_m == result.ret.location_validation.distance_from_complaint_meters
            invoked    == Len(result.estimator_calls) > 0
        IN  /\ invoked <=> (VerifiedProof.recycled_flag \/ distance_m > 50000)
            /\ ~invoked => /\ result.vlm_metadata.manip_prob = 0
                           /\ result.scoring_signals.manipulation_probability = 0

\* a recycled proof within the radius was verified and the estimator ran
C7_Witness ==
    /\ Verified
    /\ VerifiedProof.recycled_flag
    /\ result.ret.location_validation.distance_from_complaint_meters <= 50000
    /\ Len(result.estimator_calls) = 1

\* C8: verify_proof for a proof_id with no stored ProofRecord ends in an
\* explicit failure: no report with any verdict and no audit record written.
C8_UnknownProofFails ==
    [][(/\ result'.op = "verify_proof"
        /\ result'.args.proof_id \notin DOMAIN proofs)
       => /\ result'.status = "error"
          /\ "ret" \notin DOMAIN result'
          /\ audits' = audits]_vars

\* verify_proof was called for a proof that was never ingested
C8_Witness ==
    /\ result.op = "verify_proof"
    /\ result.args.proof_id \notin DOMAIN proofs
    /\ result.status = "error"
    /\ result.error = "ValueError: Proof not found"

C10_LooseCoupling ==
    /\ result.op = "ingest_proof"
       => /\ result.status = "ok"
          /\ result.ret.status = "ingested"
          /\ result.args.proof_id \in DOMAIN proofs
          /\ proofs[result.args.proof_id].metadata.complaint_id = result.args.complaint_id
    /\ (result.op = "verify_proof" /\ result.args.proof_id \in DOMAIN proofs)
       => IF ComplaintRecords(VerifiedProof.complaint_id) = {}
          THEN /\ result.status = "error"
               /\ result.error = "ValueError: Complaint not found"
          ELSE /\ result.status = "ok"
               /\ result.ret.verification_status \in Verdicts

\* a stored proof was verified before its complaint was ingested
C10_Witness ==
    /\ result.op = "verify_proof"
    /\ result.args.proof_id \in DOMAIN proofs
    /\ ComplaintRecords(VerifiedProof.complaint_id) = {}
    /\ result.status = "error"
    /\ result.error = "ValueError: Complaint not found"

\* a non-stuttering step after which the last call is verify_proof is a
\* verify_proof step: every other handler records its own name
VerifyStep == result'.op = "verify_proof"

\* C11: verify_proof never fails because of the assessor: when the assessor's
\* answer is not the expected structure (no JSON, a service error, JSON that
\* lacks a field) the pipeline goes on with work_completion_score 1 and
\* recommendation human_review and returns a report.
C11_AssessorNeverFails ==
    /\ (result.op = "verify_proof" /\ result.status = "error")
       => result.error \notin {KeyError(missing) : missing \in SUBSET VlmFields}
    /\ (Verified /\ result.vlm_response \in MalformedResponses)
       => /\ result.ret.quality_assessment.work_completion_score = 1
          /\ result.ret.recommendation = "human_review"

\* C12: in every state, also after an ingest_proof that a failing store call
\* aborted, every proof_id listed in a phash_index entry has a ProofRecord.
C12_IndexedProofsStored ==
    \A h \in DOMAIN phash_index :
        \A n \in DOMAIN phash_index[h].metadata.proof_ids :
            phash_index[h].metadata.proof_ids[n] \in DOMAIN proofs

\* an ingest_proof was aborted at its last store call while the index has entries
C12_Witness ==
    /\ result.op = "ingest_proof"
    /\ result.status = "error"
    /\ result.error = StoreError("phash_index")
    /\ DOMAIN phash_index # {}

\* C13: when ingest_proof reports failure because a store call failed, no
\* ProofRecord for its proof_id is resolvable afterwards (verify_proof of it
\* fails as not found).
C13_FailedIngestLeavesNoProof ==
    [][(/\ result'.op = "ingest_proof"
        /\ result'.status = "error"
        /\ fetch_vector(proofs, result'.args.proof_id) = None)
       => fetch_vector(proofs', result'.args.proof_id) = None]_vars

\* C14: every ComplaintRecord in complaints_before has all its chunk
\* references and its thumbnail reference in chunks, also after an aborted
\* ingest_complaint; an aborted ingest_complaint leaves no ComplaintRecord.
C14_ComplaintBlobsPresent ==
    [][/\ \A id \in DOMAIN complaints_before' :
             /\ SeqRange(complaints_before'[id].metadata.chunks) \subseteq DOMAIN chunks'
             /\ complaints_before'[id].metadata.thumb_chunk \in DOMAIN chunks'
       /\ (result'.op = "ingest_complaint" /\ result'.status = "error")
          => complaints_before' = complaints_before]_vars

\* an ingest_complaint was aborted at the record write, its blobs written
C14_Witness ==
    /\ result.op = "ingest_complaint"
    /\ result.status = "error"
    /\ result.error = StoreError("complaints_before")
    /\ DOMAIN complaints_before = {}
    /\ DOMAIN chunks # {}

\* C18: a report returned by verify_proof has been persisted as exactly one
\* audit record under a key no earlier audit record uses, with decision equal
\* to the report's verification_status; existing audit records are never
\* overwritten; when the audit write fails no report is returned.
C18_ReportAudited ==
    [][VerifyStep =>
        /\ \A k \in DOMAIN audits : k \in DOMAIN audits' /\ audits'[k] = audits[k]
        /\ result'.status = "ok"
           => \E k \in DOMAIN audits' \ DOMAIN audits :
                 /\ DOMAIN audits' = DOMAIN audits \cup {k}
                 /\ audits'[k].metadata.decision = result'.ret.verification_status
                 /\ audits'[k].metadata.proof_id = result'.ret.proof_id
        /\ (result'.status = "error"
              /\ result'.error = "Exception: upsert to audits failed")
           => "ret" \notin DOMAIN result']_vars

\* a second report was returned and audited
C18_Witness ==
    /\ Verified
    /\ Cardinality(DOMAIN audits) = 2

\* C19: verify_proof, succeeding or failing, leaves complaints_before, proofs,
\* chunks and phash_index unchanged; it writes one new record to audits on
\* success and nothing on failure.
C19_VerifyFrame ==
    [][VerifyStep =>
        /\ complaints_before' = complaints_before
        /\ proofs' = proofs
        /\ chunks' = chunks
        /\ phash_index' = phash_index
        /\ IF result'.status = "ok"
           THEN Cardinality(DOMAIN audits') = Cardinality(DOMAIN audits) + 1
           ELSE audits' = audits]_vars

\* a verify_proof failed on a store that already holds a proof and an audit
C19_Witness ==
    /\ result.op = "verify_proof"
    /\ result.status = "error"
    /\ DOMAIN proofs # {}
    /\ DOMAIN audits # {}

\* the proof ids listed under the exact digest h
ListedUnder(index, h) ==
    IF h \in DOMAIN index
    THEN {index[h].metadata.proof_ids[n] : n \in DOMAIN index[h].metadata.proof_ids}
    ELSE {}

IsPrefix(s, t) == Len(s) <= Len(t) /\ SubSeq(t, 1, Len(s)) = s

\* C15: whenever every started ingest_proof call has completed, whether the
\* calls ran one after another or interleaved, the phash_index entry keyed by
\* a fingerprint lists the proof_id of every ingested proof with exactly that
\* fingerprint; and no step ever removes an id from an entry's list.
C15_IndexListsEveryProof ==
    [][/\ \A h \in DOMAIN phash_index :
             /\ h \in DOMAIN phash_index'
             /\ IsPrefix(phash_index[h].metadata.proof_ids,
                         phash_index'[h].metadata.proof_ids)
       /\ Done(inflight') = DOMAIN inflight' =>
             \A c \in DOMAIN inflight' :
                 inflight'[c].proof_id \in
                     ListedUnder(phash_index', compute_phash(inflight'[c].image))]_vars

\* C16: when two ingest_proof calls with identical fingerprints overlapped and
\* both completed, the index holds an entry with that fingerprint, and the
\* duplicate probe of every call for a duplicate image started after both
\* completed answers recycled_flag = true.
C16_DuplicateAfterRaceFlagged ==
    [][\A c \in DOMAIN inflight :
          (/\ inflight[c].pc = "probe"
           /\ inflight'[c].pc = "store_proof"
           /\ \E a, b \in inflight[c].started_after :
                 /\ a # b
                 /\ a \notin inflight[b].started_after
                 /\ b \notin inflight[a].started_after
                 /\ compute_phash(inflight[a].image) = compute_phash(inflight[b].image)
                 /\ is_duplicate(compute_phash(inflight[c].image),
                                 compute_phash(inflight[a].image), DefaultThreshold))
          => /\ \E h \in DOMAIN phash_index :
                   phash_index[h].metadata.phash = compute_phash(inflight[c].image)
             /\ inflight'[c].recycled_flag]_vars

\* C17: ingest_proof adds a key to phash_index only when no entry already in
\* the index is within the duplicate threshold of the new fingerprint; a
\* near-duplicate that is not bit-identical adds no key.
C17_NoKeyForNearDuplicate ==
    [][\A h \in DOMAIN phash_index' \ DOMAIN phash_index :
          duplicate_entries(phash_index, h) = {}]_vars

\* C20: for every non-empty byte sequence and every positive chunk size,
\* reconstruct_image of the chunks of chunk_image returns the bytes, in
\* whatever order the chunk list is handed over.
C20_ChunkRoundTrip ==
    calc.pc = "reconstruct_image" => calc.image_bytes = calc.bytes

\* a sequence that does not fill its last chunk was reconstructed from a chunk
\* list that was not in index order
C20_Witness ==
    /\ calc.pc = "reconstruct_image"
    /\ Len(calc.chunks) >= 2
    /\ \E n \in 1..(Len(calc.chunks) - 1) : calc.chunks[n].index > calc.chunks[n + 1].index
    /\ Len(calc.bytes) % calc.chunk_size # 0
    /\ calc.image_bytes = calc.bytes

\* the indices carried by the chunks of a list
Indices(cks) == {cks[n].index : n \in DOMAIN cks}

\* the number of chunks chunk_image made of the bytes of this run
Expected == (Len(calc.bytes) + calc.chunk_size - 1) \div calc.chunk_size

\* C21: reconstruct_image never returns a byte sequence when an index of the
\* range 0..n-1 of the image's chunks is missing from the list it is given
\* (it fails with an integrity error instead).
C21_MissingChunkRaises ==
    (calc.pc = "reconstruct_image" /\ Indices(calc.chunks) # 0..(Expected - 1))
        => "image_bytes" \notin DOMAIN calc

\* C22: chunk_image of len > 0 bytes returns ceil(len / chunk_size) chunks
\* with indices 0..k-1 in order, every chunk but the last of chunk_size bytes,
\* the last of 1..chunk_size bytes, the sizes summing to len and each size the
\* length of what the chunk decodes to; of zero bytes it returns no chunk.
C22_ChunkImageShape ==
    [][(calc.pc = "input" /\ calc'.pc = "chunk_image") =>
          LET cks == calc'.chunks
              len == Len(calc.bytes)
              k   == Len(cks)
          IN  /\ k * calc.chunk_size >= len
              /\ (k - 1) * calc.chunk_size < len \/ (k = 0 /\ len = 0)
              /\ \A n \in 1..k :
                    /\ cks[n].index = n - 1
                    /\ cks[n].size = Len(b64decode(cks[n].b64))
                    /\ cks[n].size = IF n < k THEN calc.chunk_size
                                     ELSE len - (k - 1) * calc.chunk_size
                    /\ cks[n].size \in 1..calc.chunk_size]_vars

\* chunk_image has split four bytes into a full chunk of three and a last
\* chunk of one
C22_Witness ==
    /\ calc.pc = "chunk_image"
    /\ Len(calc.bytes) = 4
    /\ calc.chunk_size = 3
    /\ Len(calc.chunks) = 2
    /\ calc.chunks[1].size = 3
    /\ calc.chunks[2].size = 1

\* C23: with threshold 0.90, is_duplicate answers true for two 64-bit
\* fingerprints that differ in 0..6 bits and false for two that differ in
\* 7..64 bits.
C23_DuplicateBoundary ==
    calc.pc = "is_duplicate" => (calc.duplicate <=> Abs(calc.set1 - calc.set2) <= 6)

\* is_duplicate answered true for two fingerprints that differ in exactly 6
\* bits spread over three hex digits
C23_Witness ==
    /\ calc.pc = "is_duplicate"
    /\ calc.set1 = 3
    /\ calc.set2 = 9
    /\ hamming_distance(calc.hash1, calc.hash2) = 6
    /\ calc.duplicate

\* the sum of the seven components of a score, before clamping
ComponentSum(components) ==
    components.visual_similarity_score + components.visual_diff_score
    + components.vlm_quality_score + components.spatial_proximity_score
    + components.authenticity_score + components.recycled_penalty
    + components.manipulation_penalty

\* C24: for every signal set, also with inputs outside their ranges and with
\* both penalties applied, the composite_score that compute_composite_score
\* returns lies in [0, 1].
C24_CompositeInUnitRange ==
    calc.pc = "compute_composite_score" =>
        /\ calc.score_data.composite_score >= 0
        /\ calc.score_data.composite_score <= 1000000

\* both penalties applied to in-range signals drove the sum below 0 and the
\* returned score is 0
C24_Witness ==
    /\ calc.pc = "compute_composite_score"
    /\ calc.signals.recycled_flag
    /\ calc.signals.manipulation_probability = 1000
    /\ calc.signals.embedding_sim = 500
    /\ ComponentSum(calc.score_data.components) < 0
    /\ calc.score_data.composite_score = 0

\* C25: with all other inputs fixed, composite_score does not decrease when
\* embedding_sim rises, when ssim falls, when the work-completion score rises
\* or when manipulation_probability falls, also across the 0.85 penalty
\* boundary.
C25_CompositeMonotone ==
    [][(calc.pc = "compute_composite_score" /\ calc'.pc = "compute_composite_score"
        /\ calc'.signals.embedding_sim >= calc.signals.embedding_sim
        /\ calc'.signals.ssim <= calc.signals.ssim
        /\ calc'.signals.vlm_work_completion_score >= calc.signals.vlm_work_completion_score
        /\ calc'.signals.manipulation_probability <= calc.signals.manipulation_probability)
       => calc'.score_data.composite_score >= calc.score_data.composite_score]_vars

\* the second call lowered manipulation_probability from 0.85 to 0.849 and the
\* score rose by more than the authenticity weight alone gives
C25_Witness ==
    /\ calc.pc = "compute_composite_score"
    /\ calc.signals.manipulation_probability = 849
    /\ calc.signals.embedding_sim = 1000
    /\ calc.signals.ssim = 0
    /\ calc.signals.vlm_work_completion_score = 10
    /\ calc.signals.distance_m = 0
    /\ ~calc.signals.recycled_flag
    /\ calc.score_data.composite_score = 865100

InRange(signals) ==
    /\ signals.embedding_sim \in 0..1000
    /\ signals.ssim \in 0..1000
    /\ signals.manipulation_probability \in 0..1000
    /\ signals.vlm_work_completion_score \in 1..10

\* C28: for in-range signals, a recycled proof scores at most 0.50 and a
\* proof with manipulation_probability >= 0.85 scores below 0.70.
C28_PenaltiesBoundScore ==
    (calc.pc = "compute_composite_score" /\ InRange(calc.signals)) =>
        /\ calc.signals.recycled_flag => calc.score_data.composite_score <= 500000
        /\ calc.signals.manipulation_probability >= 850 =>
               calc.score_data.composite_score < thresholds.verified

\* the best recycled proof: every signal at its best value, score 0.45
C28_Witness ==
    /\ calc.pc = "compute_composite_score"
    /\ calc.signals.recycled_flag
    /\ calc.signals.embedding_sim = 1000
    /\ calc.signals.ssim = 0
    /\ calc.signals.vlm_work_completion_score = 10
    /\ calc.signals.manipulation_probability = 0
    /\ calc.signals.distance_m = 50000
    /\ calc.score_data.composite_score = 450000

\* C26: when the reference-example query of verify_proof raises, the assessor
\* is given no example and verify_proof still returns its report; whatever
\* the query returns, the prompt holds at most 3 examples.
C26_ReferenceFailureNotFatal ==
    Verified =>
        /\ Len(result.vlm_messages.examples) <= 3
        /\ result.ref_results = Raised => result.vlm_messages.examples = <<>>
        /\ result.ret.verification_status \in Verdicts

\* a report was returned although the reference query had raised
C26_Witness ==
    /\ Verified
    /\ result.ref_results = Raised
    /\ result.vlm_messages.examples = <<>>
    /\ result.ret.verification_status = "REJECTED"

\* C27: a report with verdict VERIFIED or QUESTIONABLE was produced without
\* a call of the manipulation estimator and carries manipulation_probability
\* 0; whenever the estimator was called the verdict is REJECTED.
C27_EstimatorOnlyOnRejected ==
    Verified =>
        /\ result.ret.verification_status \in {"VERIFIED", "QUESTIONABLE"} =>
              /\ result.estimator_calls = <<>>
              /\ result.scoring_signals.manipulation_probability = 0
        /\ result.estimator_calls # <<>> => result.ret.verification_status = "REJECTED"

\* the estimator ran on a proof that was not recycled, answered a low
\* probability, and the verdict is REJECTED
C27_Witness ==
    /\ Verified
    /\ result.estimator_calls # <<>>
    /\ ~result.scoring_signals.recycled_flag
    /\ result.scoring_signals.manipulation_probability = 100
    /\ result.ret.verification_status = "REJECTED"

\* C29: in one run of verify_proof the 50 m radius is the same everywhere:
\* the spatial component is the full 0.10 weight iff the location check of
\* make_decision does not reject iff the distance does not open the
\* manipulation gate iff the report says within_acceptable_radius; and a
\* report with within_acceptable_radius = false has verdict REJECTED.
C29_OneRadius ==
    calc.pc = "score_and_report" =>
        LET within == calc.run.report.location_validation.within_acceptable_radius
            full   == calc.run.score_data.components.spatial_proximity_score
                          = weights.spatial_proximity * 1000
            passes == make_decision(1000000, [distance_m |-> calc.distance_m]) # "REJECTED"
            closed == ~needs_manipulation_check(FALSE, calc.distance_m)
        IN  /\ full <=> within
            /\ passes <=> within
            /\ closed <=> within
            /\ ~calc.recycled_flag => (~calc.run.invoked <=> within)
            /\ ~within => calc.run.report.verification_status = "REJECTED"

\* a proof taken exactly 50 m from its complaint: full spatial weight, the
\* estimator not called, within the radius, not rejected
C29_Witness ==
    /\ calc.pc = "score_and_report"
    /\ calc.distance_m = 50000
    /\ ~calc.recycled_flag
    /\ ~calc.run.invoked
    /\ calc.run.report.location_validation.within_acceptable_radius
    /\ calc.run.score_data.components.spatial_proximity_score = 100000
    /\ calc.run.report.verification_status # "REJECTED"

\* C30: ingest_complaint leaves phash_index and proofs unchanged, so a proof
\* whose image duplicates a stored before-image, and the fingerprint of no
\* earlier proof, is ingested with recycled_flag = false.
C30_ComplaintsNotIndexed ==
    [][/\ result'.op = "ingest_complaint" =>
             /\ phash_index' = phash_index
             /\ proofs' = proofs
       /\ (/\ result'.op = "ingest_proof"
           /\ result'.status = "ok"
           /\ duplicate_entries(phash_index, compute_phash(result'.args.image)) = {}
           /\ \E c \in DOMAIN complaints_before :
                 is_duplicate(compute_phash(result'.args.image),
                              complaints_before[c].metadata.pHash, DefaultThreshold))
          => ~result'.ret.recycled_flag]_vars

\* the first proof, with the very image of a stored complaint, was ingested
\* as not recycled
C30_Witness ==
    /\ result.op = "ingest_proof"
    /\ result.status = "ok"
    /\ ~result.ret.recycled_flag
    /\ \E c \in DOMAIN complaints_before :
          complaints_before[c].metadata.pHash = compute_phash(result.args.image)
    /\ Cardinality(DOMAIN proofs) = 1
    /\ phash_index[compute_phash(result.args.image)].metadata.proof_ids
           = <<result.args.proof_id>>

============================================================================
